---- MODULE Spec2Model ----
(***************************************************************************)
(* The live-preview process pool of AgentForge (DevServerService,          *)
(* src/src/preview/dev-server.service.ts): the servers Map, the start      *)
(* calls suspended at their awaits, the runDevServerAsync pipeline of each *)
(* DevServer object with the handlers it attaches to the spawned process,  *)
(* stop with its grace timer, and the idle sweep.                          *)
(*                                                                         *)
(* A DevServer object lives on after it left the Map: the pipeline and the *)
(* process handlers hold a reference to it.  objs is the heap of DevServer *)
(* objects in creation order, servers the Map as the sequence of the       *)
(* objects it holds, in insertion order (the order a JS Map iterates in).  *)
(* The framework field only selects the command string and is left out.    *)
(*                                                                         *)
(* The second part of the module is the agent workflow of one session:    *)
(* the phase and the plans the service persists, and the requests of the   *)
(* chat controller as calls suspended at their awaits.                     *)
(*                                                                         *)
(* The third part is the services the agent relies on: the runtime-error   *)
(* buffer of DevServerService, the build-output parser of                  *)
(* BuildValidatorService, the rate-limit retry of LlmService and the file  *)
(* operations of WorkspaceService.                                         *)
(***************************************************************************)
EXTENDS Integers, Sequences, FiniteSets, Bags, TLC

VARIABLES
    servers,   \* the Map sessionId -> DevServer: indices into objs, insertion order
    objs,      \* every DevServer object created so far, with its pipeline's closure
    calls,     \* the bag of the startDevServer calls suspended at an await
    now,       \* Date.now(), in ms since the service was constructed
    ret,       \* what the step just taken returned to its caller (NoRet: nothing)
    project,   \* whether the projects table holds a row for the session of the agent
    phase,     \* projects.current_phase of that row
    plans,     \* the rows of the plans table for that project, in insertion order
    runs,      \* the bag of the agent calls suspended at an await
    arrived,   \* the number of requests the chat controller has received
    out,       \* what the agent step just taken returned, threw or emitted
    runtimeLogs, \* the Map sessionId -> runtime logs, a missing key as <<>>
    build,     \* a build output, and what parseBuildErrors made of it
    llm,       \* the generateOpenAICompletion calls
    ws         \* the files under the projects directory, and the last file operation

pool == <<servers, objs, calls, now, ret>>
agent == <<project, phase, plans, runs, arrived, out>>
services == <<runtimeLogs, build, llm, ws>>
vars == <<pool, agent, services>>

---------------------------------------------------------------------------
(* Program constants *)
basePort == 5173
portWindow == 100
maxServers == 5
idleTimeout == 30 * 60 * 1000

(* Bounds of the model *)
MaxObjects == 2      \* DevServer objects created in one behaviour
MaxSkew == 1         \* ms the clock is read at on either side of the idle threshold
MaxCalls == 2        \* generateOpenAICompletion calls in one behaviour
MaxExtBusy == 1      \* ports at the bottom of the window another program may hold

Sessions == 1 .. (maxServers + 1)
Ports == basePort .. (basePort + portWindow - 1)

NoRet == [op |-> "none"]
NoOut == [kind |-> "none", what |-> "none", prompt |-> 0]
NoResult == [success |-> TRUE, errors |-> <<>>]
NoBuild == [output |-> <<>>, parsed |-> FALSE, errors |-> <<>>, rejected |-> FALSE,
            result |-> NoResult]
NoCall == [pc |-> "idle", retries |-> 0, seen |-> <<>>, waits |-> <<>>]

\* A path is the sequence of its segments and a segment the sequence of its
\* characters.  The session ids: one is a prefix of the other.
projectsDir == << <<"projects">> >>
SessionIds == { <<"a">>, <<"a", "b">> }
NoOp == [name |-> "none", sessionId |-> <<>>, filePath |-> <<>>, outcome |-> "none",
         fullPath |-> <<>>]
\* every session has its directory and one file in it
NoWorkspace ==
    [files |-> {projectsDir \o <<s, <<"f">> >> : s \in SessionIds}, ops |-> 0, op |-> NoOp]

\* no request has reached the agent: the project row, when there is one, is
\* as createProject left it (current_phase 'idle') and has no plan
AgentIdle ==
    /\ phase = "idle"
    /\ plans = <<>>
    /\ runs = EmptyBag
    /\ arrived = 0
    /\ out = NoOut

\* no runtime error was ingested, no build output parsed, no completion asked
ServicesIdle ==
    /\ runtimeLogs = [s \in Sessions |-> <<>>]
    /\ build = NoBuild
    /\ llm = [c \in 1..MaxCalls |-> NoCall]
    /\ ws = NoWorkspace

---------------------------------------------------------------------------
(* The Map *)

\* this.servers.get(sessionId): the object's index in objs, 0 for undefined
Get(s) ==
    IF \E k \in 1..Len(servers) : objs[servers[k]].sessionId = s
    THEN servers[CHOOSE k \in 1..Len(servers) : objs[servers[k]].sessionId = s]
    ELSE 0

\* this.servers.set(sessionId, server) for the object of index i, session s:
\* an existing key keeps its place, a new key goes last
MapSet(M, s, i) ==
    IF \E k \in 1..Len(M) : objs[M[k]].sessionId = s
    THEN [k \in 1..Len(M) |-> IF objs[M[k]].sessionId = s THEN i ELSE M[k]]
    ELSE Append(M, i)

\* this.servers.delete(sessionId)
MapDelete(M, s) == SelectSeq(M, LAMBDA i : objs[i].sessionId # s)

InMap(i) == \E k \in 1..Len(servers) : servers[k] = i

\* server.process: the handle is set at spawn and cleared by the exit handler
HasHandle(o) == o.proc \in {"alive", "failed"}

Active(o) == o.status \in {"running", "starting", "installing"}

\* line 74: the record of a start that is under way
InFlightStartingOnly(o) == o.status = "starting"

InFlight(o) == o.status \in {"installing", "starting"}

\* lines 80-82
runningCount == Cardinality({k \in 1..Len(servers) : Active(objs[servers[k]])})

Spawned == Cardinality({i \in 1..Len(objs) : objs[i].proc # "none"})

\* the step leaves the heap O and the Map M
Heap(O, M) ==
    /\ objs' = O
    /\ servers' = M

---------------------------------------------------------------------------
(* stopDevServer, lines 112-125, as an effect on (objs, servers).          *)
(* ChildProcess.kill sets .killed when the signal was delivered, which it  *)
(* is to a live process; a process that failed to spawn has no pid.        *)

KillTerm(o) ==
    IF HasHandle(o)
    THEN [o EXCEPT !.killed = (o.proc = "alive"), !.grace = "armed"]
    ELSE o

StopObjs(O, s) ==
    LET i == Get(s) IN IF i = 0 THEN O ELSE [O EXCEPT ![i] = KillTerm(O[i])]

OldestRunningFlipped ==
    LET R == {k \in 1..Len(servers) : objs[servers[k]].status = "running"} IN
    IF R = {} THEN 0
    ELSE servers[CHOOSE k \in R : \A j \in R :
            \/ objs[servers[k]].lastActivity > objs[servers[j]].lastActivity
            \/ /\ objs[servers[k]].lastActivity = objs[servers[j]].lastActivity
               /\ k <= j]

\* stopOldestServer, lines 338-353: the first running record, in Map order,
\* among those of least lastActivity; 0 when no record is running
OldestRunning ==
    LET R == {k \in 1..Len(servers) : objs[servers[k]].status = "running"} IN
    IF R = {} THEN 0
    ELSE servers[CHOOSE k \in R : \A j \in R :
            \/ objs[servers[k]].lastActivity < objs[servers[j]].lastActivity
            \/ /\ objs[servers[k]].lastActivity = objs[servers[j]].lastActivity
               /\ k <= j]

---------------------------------------------------------------------------
(* findAvailablePort, lines 306-318 *)

UsedPorts == {objs[servers[k]].port : k \in 1..Len(servers)}

NextCandidateAnyPort(used, p) ==
    LET C == {q \in Ports : q >= p} IN
    IF C = {} THEN 0 ELSE CHOOSE q \in C : \A r \in C : q <= r

\* the loop up to its next await: the first port from p on that is not in
\* used, 0 when the window is exhausted
NextCandidate(used, p) ==
    LET C == {q \in Ports : q >= p /\ q \notin used} IN
    IF C = {} THEN 0 ELSE CHOOSE q \in C : \A r \in C : q <= r

\* isPortAvailable, lines 323-333: listen() fails on a port one of the
\* preview processes listens on, and may fail on a port of the environment
Listening(p) ==
    \E i \in 1..Len(objs) : objs[i].proc = "alive" /\ objs[i].isReady /\ objs[i].port = p

BindOutcomes(p) ==
    IF Listening(p) THEN {FALSE}
    ELSE IF p < basePort + MaxExtBusy THEN {TRUE, FALSE}
    ELSE {TRUE}

---------------------------------------------------------------------------
\* the bag calls with one copy of c taken out, and with one copy of d put in
Resume(c) == calls (-) SetToBag({c})
Suspend(B, d) == B (+) SetToBag({d})

\* lines 89-90 up to the first await of the probe loop
BeginProbe(s, used) ==
    [pc |-> "probe", sessionId |-> s, used |-> used,
     port |-> NextCandidate(used, basePort), refused |-> {}]

NewServer(s, p) ==
    [sessionId |-> s, port |-> p, status |-> "installing", lastActivity |-> now,
     errorMessage |-> "", proc |-> "none", isReady |-> FALSE, pc |-> "install",
     killed |-> FALSE, grace |-> "none", sigkill |-> FALSE]

Init ==
    /\ servers = <<>>
    /\ objs = <<>>
    /\ calls = EmptyBag
    /\ now = 0
    /\ ret = NoRet
    /\ project = TRUE
    /\ AgentIdle
    /\ ServicesIdle

---------------------------------------------------------------------------
(* startDevServer, lines 66-107.  The code up to the first await runs in   *)
(* one step: the early returns (68-77), the capacity check (80-87), where  *)
(* the body of stopOldestServer runs before the await on its promise       *)
(* suspends the call, or else the snapshot of the used ports and the probe *)
(* loop up to its first bind test (306-312).                               *)

StartDevServer(s, L) ==
    LET existing == Get(s) IN
    IF existing # 0 /\ objs[existing].status = "running" THEN
        /\ Heap([objs EXCEPT ![existing].lastActivity = now], servers)
        /\ ret' = [op |-> "start", sessionId |-> s, status |-> "running",
                   port |-> objs[existing].port]
        /\ UNCHANGED <<calls, now, agent, services>>
    ELSE IF existing # 0 /\ InFlight(objs[existing]) THEN
        /\ ret' = [op |-> "start", sessionId |-> s, status |-> objs[existing].status,
                   port |-> 0]
        /\ UNCHANGED <<servers, objs, calls, now, agent, services>>
    ELSE
        /\ BagCardinality(calls) < L.calls
        /\ IF runningCount >= maxServers
           THEN LET oldestServer == OldestRunning IN
                /\ IF oldestServer = 0 THEN UNCHANGED <<servers, objs>>
                   ELSE Heap([objs EXCEPT ![oldestServer] = KillTerm(@)],
                             MapDelete(servers, objs[oldestServer].sessionId))
                /\ calls' = Suspend(calls, [pc |-> "evicted", sessionId |-> s])
           ELSE /\ calls' = Suspend(calls, BeginProbe(s, UsedPorts))
                /\ UNCHANGED <<servers, objs>>
        /\ ret' = NoRet
        /\ UNCHANGED <<now, agent, services>>

\* the call resumes after `await this.stopOldestServer()`: lines 90, 306-312
FindAvailablePort(c) ==
    /\ c.pc = "evicted"
    /\ calls' = Suspend(Resume(c), BeginProbe(c.sessionId, UsedPorts))
    /\ ret' = NoRet
    /\ UNCHANGED <<servers, objs, now, agent, services>>

\* the bind test of the candidate port answers.  true: findAvailablePort
\* returns it, the record is stored (93-101), runDevServerAsync runs up to
\* its first await (184-192) and the call returns (106).  false: the loop
\* goes on to its next bind test, or throws when the window is exhausted.
IsPortAvailable(c, L) ==
    /\ c.pc = "probe"
    /\ LET call == c IN
       \E ok \in BindOutcomes(call.port) :
          IF ok THEN
              /\ Len(objs) < L.objs
              /\ Heap(Append(objs, NewServer(call.sessionId, call.port)),
                      MapSet(servers, call.sessionId, Len(objs) + 1))
              /\ calls' = Resume(c)
              /\ ret' = [op |-> "start", sessionId |-> call.sessionId,
                         status |-> "installing", port |-> call.port]
              /\ UNCHANGED <<now, agent, services>>
          ELSE
              LET nxt == NextCandidate(call.used, call.port + 1) IN
              /\ calls' = IF nxt = 0 THEN Resume(c)
                           ELSE Suspend(Resume(c),
                                        [call EXCEPT !.port = nxt,
                                                     !.refused = @ \cup {call.port}])
              /\ ret' = IF nxt = 0
                        THEN [op |-> "start", sessionId |-> call.sessionId,
                              status |-> "throw", port |-> 0]
                        ELSE NoRet
              /\ UNCHANGED <<servers, objs, now, agent, services>>

---------------------------------------------------------------------------
(* runDevServerAsync, lines 184-301, on the object of index i *)

\* lines 215-229
Spawn(o) == [o EXCEPT !.status = "starting", !.proc = "alive", !.pc = "wait"]

\* the catch block, lines 296-300
Catch(o, msg) == [o EXCEPT !.status = "error", !.errorMessage = msg, !.pc = "done"]

\* the awaits before the spawn end, lines 192-229: the project directory is
\* missing or pnpm install fails, and the catch block runs; or the
\* dependencies are there (found, or installed with the status written
\* "installing" once more) and the process is spawned
Install(i, L) ==
    /\ objs[i].pc = "install"
    /\ \/ Heap([objs EXCEPT ![i] = Catch(@, "msg")], servers)
       \/ /\ Spawned < L.spawns
          /\ Heap([objs EXCEPT ![i] = Spawn([@ EXCEPT !.status = "installing"])], servers)
    /\ ret' = NoRet
    /\ UNCHANGED <<calls, now, agent, services>>

\* the port the process reports: the one it was given, or one of the next
\* ones up when that one is taken
ActualPorts(o, L) == {p \in o.port .. (o.port + L.drift) : ~Listening(p)}

\* the stdout handler on the readiness line, lines 234-251
Stdout(i, L) ==
    /\ objs[i].proc = "alive"
    /\ ~objs[i].isReady
    /\ \E actualPort \in ActualPorts(objs[i], L) :
          Heap([objs EXCEPT ![i].port = actualPort, ![i].isReady = TRUE,
                            ![i].status = "running"], servers)
    /\ ret' = NoRet
    /\ UNCHANGED <<calls, now, agent, services>>

\* the 'error' handler, lines 258-262: the process could not be spawned
OnError(i) ==
    /\ objs[i].proc = "alive"
    /\ ~objs[i].isReady
    /\ Heap([objs EXCEPT ![i].status = "error", ![i].errorMessage = "msg",
                          ![i].proc = "failed"], servers)
    /\ ret' = NoRet
    /\ UNCHANGED <<calls, now, agent, services>>

\* the 'exit' handler, lines 264-270
OnExit(i) ==
    /\ objs[i].proc = "alive"
    /\ Heap([objs EXCEPT ![i].status = IF @ # "error" THEN "idle" ELSE @,
                          ![i].proc = "exited"], servers)
    /\ ret' = NoRet
    /\ UNCHANGED <<calls, now, agent, services>>

ReadyTimeoutRejects(i) ==
    /\ objs[i].pc = "wait"
    /\ ~objs[i].isReady
    /\ Heap([objs EXCEPT ![i].status = "error", ![i].errorMessage = "msg",
                          ![i].pc = "done"], servers)
    /\ ret' = NoRet
    /\ UNCHANGED <<calls, now, agent, services>>

\* the 30 s timer, lines 274-280; with isReady set it does nothing
ReadyTimeout(i) ==
    /\ objs[i].pc = "wait"
    /\ ~objs[i].isReady
    /\ Heap([objs EXCEPT ![i].status = "running", ![i].pc = "done"], servers)
    /\ ret' = NoRet
    /\ UNCHANGED <<calls, now, agent, services>>

\* the 500 ms interval, lines 282-293, on a tick that settles the promise
CheckInterval(i) ==
    /\ objs[i].pc = "wait"
    /\ objs[i].isReady \/ objs[i].status = "error"
    /\ Heap([objs EXCEPT ![i] = IF @.isReady THEN [@ EXCEPT !.pc = "done"]
                                 ELSE Catch(@, @.errorMessage)], servers)
    /\ ret' = NoRet
    /\ UNCHANGED <<calls, now, agent, services>>

---------------------------------------------------------------------------
\* stopDevServer, lines 112-125
StopDevServer(s) ==
    /\ Heap(StopObjs(objs, s), MapDelete(servers, s))
    /\ ret' = NoRet
    /\ UNCHANGED <<calls, now, agent, services>>

\* the 5 s timer of stopDevServer, lines 118-122
GraceTimeout(i) ==
    /\ objs[i].grace = "armed"
    /\ Heap([objs EXCEPT ![i].grace = "fired",
                          ![i].sigkill = HasHandle(objs[i]) /\ ~objs[i].killed], servers)
    /\ ret' = NoRet
    /\ UNCHANGED <<calls, now, agent, services>>

IdleServersAtThreshold ==
    {i \in 1..Len(objs) : /\ InMap(i)
                          /\ objs[i].status = "running"
                          /\ now - objs[i].lastActivity >= idleTimeout}

\* cleanupIdleServers, lines 358-370
IdleServers ==
    {i \in 1..Len(objs) : /\ InMap(i)
                          /\ objs[i].status = "running"
                          /\ now - objs[i].lastActivity > idleTimeout}

CleanupIdleServers ==
    /\ Heap([i \in 1..Len(objs) |-> IF i \in IdleServers THEN KillTerm(objs[i]) ELSE objs[i]],
            SelectSeq(servers, LAMBDA i : i \notin IdleServers))
    /\ ret' = NoRet
    /\ UNCHANGED <<calls, now, agent, services>>

\* time passes, up to a later instant t
Tick(t) ==
    /\ now < t
    /\ now' = t
    /\ ret' = NoRet
    /\ UNCHANGED <<servers, objs, calls, agent, services>>

---------------------------------------------------------------------------
(* A scenario L bounds what the callers and the environment do:            *)
(*   sess    the sessions whose previews are started and stopped and whose *)
(*           pipelines and processes make progress (the processes of the   *)
(*           other sessions stay as they are),                             *)
(*   objs    the DevServer objects that may exist,                         *)
(*   calls   the startDevServer calls that may be suspended together,      *)
(*   drift   how far from the port it was given a process may listen,      *)
(*   times   the instants the clock is read at.                            *)

Live(L) == {i \in 1..Len(objs) : objs[i].sessionId \in L.sess}

\* one caller at a time, every event of the lifecycle of a preview
Life == [sess |-> {1}, objs |-> MaxObjects, calls |-> 1, spawns |-> MaxObjects,
         drift |-> 0, times |-> {0}]

NextLife ==
    \/ \E s \in Life.sess : StartDevServer(s, Life)
    \/ \E c \in BagToSet(calls) : IsPortAvailable(c, Life)
    \/ \E i \in Live(Life) : Install(i, Life)
    \/ \E i \in Live(Life) : Stdout(i, Life)
    \/ \E i \in Live(Life) : OnError(i)
    \/ \E i \in Live(Life) : OnExit(i)
    \/ \E i \in Live(Life) : ReadyTimeout(i)
    \/ \E i \in Live(Life) : CheckInterval(i)
    \/ \E s \in Life.sess : StopDevServer(s)
    \/ \E i \in Live(Life) : GraceTimeout(i)

Spec == Init /\ [][NextLife]_vars

\* start calls that overlap, for two sessions, up to the readiness line
Race == [sess |-> {1, 2}, objs |-> MaxObjects, calls |-> 2, spawns |-> MaxObjects,
         drift |-> 0, times |-> {0}]

NextRace ==
    \/ \E s \in Race.sess : StartDevServer(s, Race)
    \/ \E c \in BagToSet(calls) : IsPortAvailable(c, Race)
    \/ \E i \in Live(Race) : Install(i, Race)
    \/ \E i \in Live(Race) : Stdout(i, Race)

SpecRace == Init /\ [][NextRace]_vars

(* The pool near its capacity.  The state at the start is one the service  *)
(* reaches by maxServers start calls at time 0: the sessions 2 ..           *)
(* maxServers + 1 hold records, in the order and with the ports the calls  *)
(* gave them; the first r of them are running with their process           *)
(* listening and the others still installing, and one running record may   *)
(* have been refreshed since by a start call.  Session 1 then starts and   *)
(* stops its preview while the clock runs past the idle threshold.         *)

Installing(s, p, t) ==
    [sessionId |-> s, port |-> p, status |-> "installing", lastActivity |-> t,
     errorMessage |-> "", proc |-> "none", isReady |-> FALSE, pc |-> "install",
     killed |-> FALSE, grace |-> "none", sigkill |-> FALSE]

Running(s, p, t) ==
    [sessionId |-> s, port |-> p, status |-> "running", lastActivity |-> t,
     errorMessage |-> "", proc |-> "alive", isReady |-> TRUE, pc |-> "done",
     killed |-> FALSE, grace |-> "none", sigkill |-> FALSE]

InitPool ==
    /\ \E r \in 0..maxServers : \E f \in 0..r :
          objs = [k \in 1..maxServers |->
                     IF k <= r
                     THEN Running(k + 1, basePort + k - 1, IF k = f THEN MaxSkew ELSE 0)
                     ELSE Installing(k + 1, basePort + k - 1, 0)]
    /\ servers = [k \in 1..maxServers |-> k]
    /\ calls = EmptyBag
    /\ now = MaxSkew
    /\ ret = NoRet
    /\ project = TRUE
    /\ AgentIdle
    /\ ServicesIdle

Pool == [sess |-> {1}, objs |-> maxServers + 1, calls |-> 1,
         spawns |-> maxServers + 1, drift |-> 0,
         times |-> (0..MaxSkew) \cup (idleTimeout .. (idleTimeout + MaxSkew))]

NextPool ==
    \/ \E s \in Pool.sess : StartDevServer(s, Pool)
    \/ \E c \in BagToSet(calls) : FindAvailablePort(c)
    \/ \E c \in BagToSet(calls) : IsPortAvailable(c, Pool)
    \/ \E i \in Live(Pool) : Install(i, Pool)
    \/ \E i \in Live(Pool) : Stdout(i, Pool)
    \/ \E i \in Live(Pool) : OnError(i)
    \/ \E i \in Live(Pool) : OnExit(i)
    \/ \E i \in Live(Pool) : ReadyTimeout(i)
    \/ \E i \in Live(Pool) : CheckInterval(i)
    \/ \E s \in Pool.sess : StopDevServer(s)
    \/ \E i \in 1..Len(objs) : GraceTimeout(i)
    \/ CleanupIdleServers
    \/ \E t \in Pool.times : Tick(t)

SpecPool == InitPool /\ [][NextPool]_vars

---------------------------------------------------------------------------
(* The agent workflow of one session (AgentService, src/unnamed/part_004;  *)
(* PersistenceService, src/unnamed/part_003; the plans and projects tables *)
(* behind SupabaseService, src/src/supabase/supabase.service.ts, with the  *)
(* schema of src/unnamed/part_012).  A request of the chat controller      *)
(* (src/unnamed/part_007) becomes a run: a call of an AgentService method  *)
(* suspended at one of its awaits.  Every database request is one step.    *)
(* The chat history, the changed-files record and the fire-and-forget      *)
(* background verification touch neither the phase nor the plans and are   *)
(* left out; the preview start at the end of a streamed run is taken by    *)
(* its outcome (it returns, or throws 'No available ports').               *)

MaxSteps == 2        \* implementation steps a generated plan may have
MaxRequests == 3     \* requests the controller receives in one behaviour
MaxDiagnostics == 1  \* errors a build reports, and entries of the runtime log read

Kinds == {"plan", "planStream", "generate", "generateStream",
          "approve", "approveStream", "fastMode", "repair"}

\* the entry points that run runCodingPhaseStream / run planning first
Streamed == {"approveStream", "generateStream"}
Planning == {"plan", "planStream", "generate", "generateStream"}

\* PersistenceService.getPhase, part_003:117-120
GetPhase == IF project THEN phase ELSE "idle"

\* SupabaseService.updateProjectPhase: an update of the rows with the
\* session id, of which there is one or none
UpdateProjectPhase(ph) == phase' = IF project THEN ph ELSE phase

Pending == {k \in 1..Len(plans) : plans[k].status = "pending"}

\* SupabaseService.getPendingPlan: .single() gives the row when exactly one
\* row matches and an error (data null) otherwise; 0 stands for null
GetPendingPlan == IF Cardinality(Pending) = 1 THEN CHOOSE k \in Pending : TRUE ELSE 0

\* PersistenceService.getPlan, part_003:85-99
GetPlan == IF project THEN GetPendingPlan ELSE 0

\* the first await of each entry point
Entry(kind) ==
    CASE kind \in {"plan", "planStream", "generateStream"} -> "planning"
      [] kind = "generate" -> "getPhase"
      [] kind \in {"approve", "approveStream"} -> "getPlan"
      [] kind = "fastMode" -> "fastGen"
      [] kind = "repair" -> "build"
      [] kind = "background" -> "bgVerify"

\* a run: prompt numbers the request (0: the entry point takes no prompt),
\* steps is plan.steps.length, plan and id the rows read by getPlan and by
\* approvePlan, i the steps gone through, recorded / failed the steps
\* whose result was stored / whose generation raised, fixes the calls of
\* autoFixErrors, tail the events emitted from the first complete or error
\* event on.  The kind "background" is a runBackgroundVerifyAndFix call.
NewRun(kind, p) ==
    [kind |-> kind, pc |-> Entry(kind), prompt |-> p, steps |-> 0, plan |-> 0,
     id |-> 0, i |-> 0, recorded |-> {}, failed |-> {}, fixes |-> 0, tail |-> <<>>,
     history |-> <<>>]

\* the messages of the step loop, part_004:305 and 318; history is the array
\* the loop pushes them to and gives to every generation call (the messages
\* read from the chat history before the loop are left out)
Instruction(k) == [role |-> "user", step |-> k]
Response(k) == [role |-> "assistant", step |-> k]

\* the turn of step k begins, 296-305: its instruction is pushed
Turn(r, k) == IF k <= r.steps THEN <<Instruction(k)>> ELSE <<>>

\* the calls made for a request, not counting the detached ones
Requests == [r \in {q \in BagToSet(runs) : q.kind # "background"} |-> runs[r]]

\* BuildValidatorService.buildProject, part_009:22-64: success with no
\* error, or failure with at least one (the parsed ones or error.message)
BuildResults ==
    {[success |-> TRUE, errors |-> 0]}
       \cup {[success |-> FALSE, errors |-> n] : n \in 1..MaxDiagnostics}

\* combinedErrors.length: part_004:429-445 and 565
CombinedErrors(buildResult, logs) ==
    (IF buildResult.success THEN 0 ELSE buildResult.errors) + logs

Emit(r, what) == out' = [kind |-> r.kind, what |-> what, prompt |-> r.prompt]

\* the run r goes on as r2 / ends
Goto(r, r2) == runs' = (runs (-) SetToBag({r})) (+) SetToBag({r2})
End(r) == runs' = runs (-) SetToBag({r})

\* ChatController: a request arrives and its handler runs to the first await
Request(kind, L) ==
    /\ arrived < L.requests
    /\ BagCardinality(Requests) < L.inflight
    /\ arrived' = arrived + 1
    /\ runs' = runs (+) SetToBag({NewRun(kind, IF kind \in Planning \cup {"fastMode"}
                                               THEN arrived + 1 ELSE 0)})
    /\ out' = NoOut
    /\ UNCHANGED <<project, phase, plans, pool, services>>

\* runAgent, part_004:148-161, after its getPhase
RunAgent(r) ==
    /\ r.pc = "getPhase"
    /\ Goto(r, [r EXCEPT !.pc = IF GetPhase = "awaiting_approval"
                                THEN "getPlan" ELSE "planning"])
    /\ out' = NoOut
    /\ UNCHANGED <<project, phase, plans, arrived, pool, services>>

\* runPlanningPhase 30-35, runPlanningPhaseStream 226-230
PlanningStart(r) ==
    /\ r.pc = "planning"
    /\ UpdateProjectPhase("planning")
    /\ Goto(r, [r EXCEPT !.pc = "genPlan"])
    /\ out' = NoOut
    /\ UNCHANGED <<project, plans, arrived, pool, services>>

\* the generation of the plan text, 44 / 249-252: it yields a text with some
\* number of steps, or raises
GeneratePlan(r) ==
    /\ r.pc = "genPlan"
    /\ \/ \E n \in 0..MaxSteps :
             /\ Goto(r, [r EXCEPT !.pc = "setPlan", !.steps = n])
             /\ out' = NoOut
       \/ /\ End(r)
          /\ Emit(r, "throw")
    /\ UNCHANGED <<project, phase, plans, arrived, pool, services>>

\* PersistenceService.setPlan 70-72 and the first request of createPlan
\* (supabase.service.ts:258-263): the pending plans become superseded
SetPlan(r) ==
    /\ r.pc = "setPlan"
    /\ IF project
       THEN /\ plans' = [k \in 1..Len(plans) |->
                            IF plans[k].status = "pending"
                            THEN [plans[k] EXCEPT !.status = "superseded"]
                            ELSE plans[k]]
            /\ Goto(r, [r EXCEPT !.pc = "insert"])
       ELSE /\ Goto(r, [r EXCEPT !.pc = "planned"])
            /\ UNCHANGED plans
    /\ out' = NoOut
    /\ UNCHANGED <<project, phase, arrived, pool, services>>

InsertAllowedNoIndex == TRUE

\* the unique index idx_plans_pending (part_012): a pending row is refused
\* while the project has a pending row
InsertAllowed == Pending = {}

\* the insert of createPlan, supabase.service.ts:265-282; a refused insert
\* is logged and createPlan returns null, which setPlan ignores
CreatePlan(r) ==
    /\ r.pc = "insert"
    /\ plans' = IF InsertAllowed
                THEN Append(plans, [request |-> r.prompt, steps |-> r.steps,
                                    status |-> "pending"])
                ELSE plans
    /\ Goto(r, [r EXCEPT !.pc = "setPlanPhase"])
    /\ out' = NoOut
    /\ UNCHANGED <<project, phase, arrived, pool, services>>

\* PersistenceService.setPlan, line 82
SetPlanPhase(r) ==
    /\ r.pc = "setPlanPhase"
    /\ UpdateProjectPhase("awaiting_approval")
    /\ Goto(r, [r EXCEPT !.pc = "planned"])
    /\ out' = NoOut
    /\ UNCHANGED <<project, plans, arrived, pool, services>>

\* the planning phase ends (56-63, 264-268): the plan entry points return
\* phase 'awaiting_approval'; runAgent (160) and runAgentStream (592) go on
\* into the coding phase
PlanningReturn(r) ==
    /\ r.pc = "planned"
    /\ IF r.kind \in {"plan", "planStream"}
       THEN End(r)
       ELSE Goto(r, [r EXCEPT !.pc = "getPlan"])
    /\ IF r.kind = "generate" THEN out' = NoOut ELSE Emit(r, "awaiting_approval")
    /\ UNCHANGED <<project, phase, plans, arrived, pool, services>>

CodingGetPlanApprovesFirst(r) ==
    /\ r.pc = "getPlan"
    /\ LET plan == GetPlan IN
       IF plan = 0
       THEN /\ End(r)
            /\ Emit(r, "No plan found")
            /\ UpdateProjectPhase("coding")
       ELSE /\ Goto(r, [r EXCEPT !.pc = "approvePlan", !.plan = plan,
                                 !.steps = plans[plan].steps])
            /\ out' = NoOut
            /\ UNCHANGED phase
    /\ UNCHANGED <<project, plans, arrived, pool, services>>

\* runCodingPhase 70-73, runCodingPhaseStream 276-279
CodingGetPlan(r) ==
    /\ r.pc = "getPlan"
    /\ LET plan == GetPlan IN
       IF plan = 0
       THEN /\ End(r)
            /\ Emit(r, "No plan found")
       ELSE /\ Goto(r, [r EXCEPT !.pc = "approvePlan", !.plan = plan,
                                 !.steps = plans[plan].steps])
            /\ out' = NoOut
    /\ UNCHANGED <<project, phase, plans, arrived, pool, services>>

\* PersistenceService.approvePlan 101-106: the pending row is read
ApprovePlanRead(r) ==
    /\ r.pc = "approvePlan"
    /\ LET dbPlan == GetPlan IN
       Goto(r, [r EXCEPT !.pc = IF dbPlan = 0 THEN "setPhase" ELSE "approve",
                         !.id = dbPlan])
    /\ out' = NoOut
    /\ UNCHANGED <<project, phase, plans, arrived, pool, services>>

\* SupabaseService.approvePlan(dbPlan.id), supabase.service.ts:285-300
ApprovePlan(r) ==
    /\ r.pc = "approve"
    /\ plans' = [plans EXCEPT ![r.id].status = "approved"]
    /\ Goto(r, [r EXCEPT !.pc = "setPhase"])
    /\ out' = NoOut
    /\ UNCHANGED <<project, phase, arrived, pool, services>>

\* the phase is written 'coding': part_003:108 when a row was approved, and
\* setPhase at part_004:76 / 284
SetPhaseCoding(r) ==
    /\ r.pc = "setPhase"
    /\ UpdateProjectPhase("coding")
    /\ Goto(r, IF r.kind \in Streamed
               THEN [r EXCEPT !.pc = "steps", !.history = Turn(r, 1)]
               ELSE [r EXCEPT !.pc = "genCode"])
    /\ out' = NoOut
    /\ UNCHANGED <<project, plans, arrived, pool, services>>

\* runCodingPhase 78-90: the one generation call of the coding phase
GenerateCode(r) ==
    /\ r.pc = "genCode"
    /\ \/ /\ Goto(r, [r EXCEPT !.pc = "verify"])
          /\ out' = NoOut
       \/ /\ End(r)
          /\ Emit(r, "throw")
    /\ UNCHANGED <<project, phase, plans, arrived, pool, services>>

\* runVerificationPhase 104
VerificationStart(r) ==
    /\ r.pc = "verify"
    /\ UpdateProjectPhase("verifying")
    /\ Goto(r, [r EXCEPT !.pc = "verifyPlan"])
    /\ out' = NoOut
    /\ UNCHANGED <<project, plans, arrived, pool, services>>

\* runVerificationPhase 106-113: without a pending plan it returns
VerificationGetPlan(r) ==
    /\ r.pc = "verifyPlan"
    /\ IF GetPlan = 0
       THEN /\ End(r)
            /\ Emit(r, "return")
       ELSE /\ Goto(r, [r EXCEPT !.pc = "verifyGen"])
            /\ out' = NoOut
    /\ UNCHANGED <<project, phase, plans, arrived, pool, services>>

\* runVerificationPhase 135-144
VerificationGenerate(r) ==
    /\ r.pc = "verifyGen"
    /\ \/ /\ UpdateProjectPhase("complete")
          /\ Emit(r, "return")
       \/ /\ UNCHANGED phase
          /\ Emit(r, "throw")
    /\ End(r)
    /\ UNCHANGED <<project, plans, arrived, pool, services>>

ExecuteStepForgetsResponse(r) ==
    /\ r.pc = "steps"
    /\ r.i < r.steps
    /\ \/ /\ Goto(r, [r EXCEPT !.i = @ + 1, !.recorded = @ \cup {r.i + 1},
                                 !.history = @ \o Turn(r, r.i + 2)])
          /\ out' = NoOut
       \/ /\ Goto(r, [r EXCEPT !.i = @ + 1, !.failed = @ \cup {r.i + 1},
                                 !.history = @ \o Turn(r, r.i + 2)])
          /\ Emit(r, "Error in step")
    /\ UNCHANGED <<project, phase, plans, arrived, pool, services>>

ExecuteStepAborts(r) ==
    /\ r.pc = "steps"
    /\ r.i < r.steps
    /\ \/ /\ Goto(r, [r EXCEPT !.i = @ + 1, !.recorded = @ \cup {r.i + 1},
                                 !.history = @ \o <<Response(r.i + 1)>> \o Turn(r, r.i + 2)])
          /\ out' = NoOut
       \/ /\ End(r)
          /\ Emit(r, "throw")
    /\ UNCHANGED <<project, phase, plans, arrived, pool, services>>

\* one turn of the step loop, runCodingPhaseStream 295-328: the generation
\* of step i + 1 ends and its result is stored, or it raises and the catch
\* block emits the notification
ExecuteStep(r) ==
    /\ r.pc = "steps"
    /\ r.i < r.steps
    /\ \/ /\ Goto(r, [r EXCEPT !.i = @ + 1, !.recorded = @ \cup {r.i + 1},
                                 !.history = @ \o <<Response(r.i + 1)>> \o Turn(r, r.i + 2)])
          /\ out' = NoOut
       \/ /\ Goto(r, [r EXCEPT !.i = @ + 1, !.failed = @ \cup {r.i + 1},
                                 !.history = @ \o Turn(r, r.i + 2)])
          /\ Emit(r, "Error in step")
    /\ UNCHANGED <<project, phase, plans, arrived, pool, services>>

\* after the loop, 330-353: the background verification is started and not
\* awaited, the complete event is emitted, then a status event, and the
\* call waits for the preview start
CodingComplete(r) ==
    /\ r.pc = "steps"
    /\ r.i = r.steps
    /\ runs' = (runs (-) SetToBag({r}))
                  (+) SetToBag({[r EXCEPT !.pc = "preview",
                                          !.tail = <<"complete", "status">>]})
                  (+) SetToBag({NewRun("background", 0)})
    /\ Emit(r, "complete")
    /\ UNCHANGED <<project, phase, plans, arrived, pool, services>>

\* 353-361: startDevServer returns and the phase is written 'complete',
\* or it throws and so does the run
CodingPreview(r) ==
    /\ r.pc = "preview"
    /\ \/ /\ UpdateProjectPhase("complete")
          /\ Emit(r, "return")
       \/ /\ UNCHANGED phase
          /\ Emit(r, "throw")
    /\ End(r)
    /\ UNCHANGED <<project, plans, arrived, pool, services>>

BackgroundVerifyAlwaysFixes(r, buildResult, logs) ==
    /\ r.pc = "bgVerify"
    /\ Goto(r, [r EXCEPT !.pc = "bgFix", !.fixes = @ + 1])
    /\ out' = NoOut
    /\ UNCHANGED <<project, phase, plans, arrived, pool, services>>

\* runBackgroundVerifyAndFix 557-571: after the 2 s wait and the build,
\* autoFixErrors is called when there is a build error or a runtime log
BackgroundVerify(r, buildResult, logs) ==
    /\ r.pc = "bgVerify"
    /\ IF CombinedErrors(buildResult, logs) > 0
       THEN Goto(r, [r EXCEPT !.pc = "bgFix", !.fixes = @ + 1])
       ELSE End(r)
    /\ out' = NoOut
    /\ UNCHANGED <<project, phase, plans, arrived, pool, services>>

\* runBackgroundVerifyAndFix 570-575: autoFixErrors returns, its result is
\* not looked at
BackgroundFix(r, success) ==
    /\ r.pc = "bgFix"
    /\ End(r)
    /\ out' = NoOut
    /\ UNCHANGED <<project, phase, plans, arrived, pool, services>>

\* runFastModeStream 371-402: the generation ends, or raises and the run
\* ends with an error event
FastGenerate(r) ==
    /\ r.pc = "fastGen"
    /\ \/ /\ Goto(r, [r EXCEPT !.pc = "fastPreview"])
          /\ out' = NoOut
       \/ /\ End(r)
          /\ Emit(r, "error")
    /\ UNCHANGED <<project, phase, plans, arrived, pool, services>>

\* runFastModeStream 405-413
FastPreview(r) ==
    /\ r.pc = "fastPreview"
    /\ \/ Emit(r, "complete")
       \/ Emit(r, "throw")
    /\ End(r)
    /\ UNCHANGED <<project, phase, plans, arrived, pool, services>>

\* runRepairPhaseStream 425-459: the build returns.  Without a diagnostic
\* the run ends on the status 'Ready'; with some, they are emitted in an
\* error event, then a status event, and autoFixErrors is called
RepairBuild(r, buildResult, logs) ==
    /\ r.pc = "build"
    /\ IF CombinedErrors(buildResult, logs) = 0
       THEN /\ End(r)
            /\ Emit(r, "Ready")
       ELSE /\ Goto(r, [r EXCEPT !.pc = "fix", !.fixes = @ + 1,
                                 !.tail = <<"error", "status">>])
            /\ Emit(r, "error")
    /\ UNCHANGED <<project, phase, plans, arrived, pool, services>>

RepairFixThrows(r, success) ==
    /\ r.pc = "fix"
    /\ IF success
       THEN /\ Goto(r, [r EXCEPT !.pc = "rebuild", !.tail = @ \o <<"chunk", "status">>])
            /\ out' = NoOut
       ELSE /\ End(r)
            /\ Emit(r, "throw")
    /\ UNCHANGED <<project, phase, plans, arrived, pool, services>>

\* runRepairPhaseStream 459-475: autoFixErrors (484-554) returns
\* {success: true} and the rebuild is started, or {success: false}, when
\* the generation or the gathering of the context raised
RepairFix(r, success) ==
    /\ r.pc = "fix"
    /\ IF success
       THEN /\ Goto(r, [r EXCEPT !.pc = "rebuild", !.tail = @ \o <<"chunk", "status">>])
            /\ out' = NoOut
       ELSE /\ Goto(r, [r EXCEPT !.pc = "repairPreview", !.tail = Append(@, "chunk")])
            /\ Emit(r, "Could not automatically fix errors")
    /\ UNCHANGED <<project, phase, plans, arrived, pool, services>>

RepairRebuildRetries(r, rebuildResult) ==
    /\ r.pc = "rebuild"
    /\ IF rebuildResult.success
       THEN /\ Goto(r, [r EXCEPT !.pc = "repairPreview",
                                 !.tail = @ \o <<"chunk", "status">>])
            /\ Emit(r, "Fixed")
       ELSE /\ Goto(r, [r EXCEPT !.pc = "fix", !.fixes = @ + 1])
            /\ Emit(r, "error")
    /\ UNCHANGED <<project, phase, plans, arrived, pool, services>>

\* runRepairPhaseStream 465-472: the rebuild returns
RepairRebuild(r, rebuildResult) ==
    /\ r.pc = "rebuild"
    /\ Goto(r, [r EXCEPT !.pc = "repairPreview",
                         !.tail = @ \o IF rebuildResult.success
                                          THEN <<"chunk", "status">>
                                          ELSE <<"chunk", "error">>])
    /\ Emit(r, IF rebuildResult.success THEN "Fixed" ELSE "error")
    /\ UNCHANGED <<project, phase, plans, arrived, pool, services>>

\* runRepairPhaseStream 479-480
RepairPreview(r) ==
    /\ r.pc = "repairPreview"
    /\ \/ Emit(r, "complete")
       \/ Emit(r, "throw")
    /\ End(r)
    /\ UNCHANGED <<project, phase, plans, arrived, pool, services>>

\* the session of the agent, with or without its project row
InitAgent ==
    /\ servers = <<>>
    /\ objs = <<>>
    /\ calls = EmptyBag
    /\ now = 0
    /\ ret = NoRet
    /\ project \in BOOLEAN
    /\ AgentIdle
    /\ ServicesIdle

(* A scenario L bounds what the callers of the chat controller do: kinds   *)
(* are the entry points they call, requests how many requests they send    *)
(* and inflight how many of these may be under way together: two, the      *)
(* least number that lets requests overlap.                                *)

\* plan, then approve: the two-request workflow, plain and streamed
Approval == [kinds |-> {"plan", "planStream", "approve", "approveStream"},
             requests |-> MaxRequests, inflight |-> 2]

NextApproval ==
    \/ \E kind \in Approval.kinds : Request(kind, Approval)
    \/ \E r \in BagToSet(runs) : PlanningStart(r)
    \/ \E r \in BagToSet(runs) : GeneratePlan(r)
    \/ \E r \in BagToSet(runs) : SetPlan(r)
    \/ \E r \in BagToSet(runs) : CreatePlan(r)
    \/ \E r \in BagToSet(runs) : SetPlanPhase(r)
    \/ \E r \in BagToSet(runs) : PlanningReturn(r)
    \/ \E r \in BagToSet(runs) : CodingGetPlan(r)
    \/ \E r \in BagToSet(runs) : ApprovePlanRead(r)
    \/ \E r \in BagToSet(runs) : ApprovePlan(r)
    \/ \E r \in BagToSet(runs) : SetPhaseCoding(r)
    \/ \E r \in BagToSet(runs) : GenerateCode(r)
    \/ \E r \in BagToSet(runs) : VerificationStart(r)
    \/ \E r \in BagToSet(runs) : VerificationGetPlan(r)
    \/ \E r \in BagToSet(runs) : VerificationGenerate(r)
    \/ \E r \in BagToSet(runs) : ExecuteStep(r)
    \/ \E r \in BagToSet(runs) : CodingComplete(r)
    \/ \E r \in BagToSet(runs) : CodingPreview(r)
    \/ \E r \in BagToSet(runs) : \E b \in BuildResults : \E l \in 0..MaxDiagnostics :
          BackgroundVerify(r, b, l)
    \/ \E r \in BagToSet(runs) : \E success \in BOOLEAN : BackgroundFix(r, success)

SpecApproval == InitAgent /\ [][NextApproval]_vars

\* the legacy entry points, which run all the phases in one request
Legacy == [kinds |-> {"plan", "generate", "generateStream"},
           requests |-> 2, inflight |-> 2]

NextLegacy ==
    \/ \E kind \in Legacy.kinds : Request(kind, Legacy)
    \/ \E r \in BagToSet(runs) : RunAgent(r)
    \/ \E r \in BagToSet(runs) : PlanningStart(r)
    \/ \E r \in BagToSet(runs) : GeneratePlan(r)
    \/ \E r \in BagToSet(runs) : SetPlan(r)
    \/ \E r \in BagToSet(runs) : CreatePlan(r)
    \/ \E r \in BagToSet(runs) : SetPlanPhase(r)
    \/ \E r \in BagToSet(runs) : PlanningReturn(r)
    \/ \E r \in BagToSet(runs) : CodingGetPlan(r)
    \/ \E r \in BagToSet(runs) : ApprovePlanRead(r)
    \/ \E r \in BagToSet(runs) : ApprovePlan(r)
    \/ \E r \in BagToSet(runs) : SetPhaseCoding(r)
    \/ \E r \in BagToSet(runs) : GenerateCode(r)
    \/ \E r \in BagToSet(runs) : VerificationStart(r)
    \/ \E r \in BagToSet(runs) : VerificationGetPlan(r)
    \/ \E r \in BagToSet(runs) : VerificationGenerate(r)
    \/ \E r \in BagToSet(runs) : ExecuteStep(r)
    \/ \E r \in BagToSet(runs) : CodingComplete(r)
    \/ \E r \in BagToSet(runs) : CodingPreview(r)
    \/ \E r \in BagToSet(runs) : \E b \in BuildResults : \E l \in 0..MaxDiagnostics :
          BackgroundVerify(r, b, l)
    \/ \E r \in BagToSet(runs) : \E success \in BOOLEAN : BackgroundFix(r, success)

SpecLegacy == InitAgent /\ [][NextLegacy]_vars

\* fast mode and repair, in a session that may hold a plan
Side == [kinds |-> {"plan", "approve", "fastMode", "repair"},
         requests |-> MaxRequests, inflight |-> 2]

NextSide ==
    \/ \E kind \in Side.kinds : Request(kind, Side)
    \/ \E r \in BagToSet(runs) : PlanningStart(r)
    \/ \E r \in BagToSet(runs) : GeneratePlan(r)
    \/ \E r \in BagToSet(runs) : SetPlan(r)
    \/ \E r \in BagToSet(runs) : CreatePlan(r)
    \/ \E r \in BagToSet(runs) : SetPlanPhase(r)
    \/ \E r \in BagToSet(runs) : PlanningReturn(r)
    \/ \E r \in BagToSet(runs) : CodingGetPlan(r)
    \/ \E r \in BagToSet(runs) : ApprovePlanRead(r)
    \/ \E r \in BagToSet(runs) : ApprovePlan(r)
    \/ \E r \in BagToSet(runs) : SetPhaseCoding(r)
    \/ \E r \in BagToSet(runs) : GenerateCode(r)
    \/ \E r \in BagToSet(runs) : VerificationStart(r)
    \/ \E r \in BagToSet(runs) : VerificationGetPlan(r)
    \/ \E r \in BagToSet(runs) : VerificationGenerate(r)
    \/ \E r \in BagToSet(runs) : FastGenerate(r)
    \/ \E r \in BagToSet(runs) : FastPreview(r)
    \/ \E r \in BagToSet(runs) : \E b \in BuildResults : \E l \in 0..MaxDiagnostics :
          RepairBuild(r, b, l)
    \/ \E r \in BagToSet(runs) : \E success \in BOOLEAN : RepairFix(r, success)
    \/ \E r \in BagToSet(runs) : \E b \in BuildResults : RepairRebuild(r, b)
    \/ \E r \in BagToSet(runs) : RepairPreview(r)

SpecSide == InitAgent /\ [][NextSide]_vars

----------------------------------------------------------------------------
(* The runtime-error buffer, dev-server.service.ts:134-152                 *)

maxLogs == 50

(* Bounds of the model *)
MaxMessages == 2     \* distinct messages the page can report
MaxLines == 6        \* lines of a build output
\* (MaxCalls, above, bounds the completion calls)

\* what the preview page posts: part_008:34
Logs == [type : {"", "TypeError"}, message : 1..MaxMessages, stack : {""}]

\* the entry string of line 144: the ISO time of the ingestion to the
\* millisecond, then type, message and stack with their defaults
LogEntry(log) ==
    [at |-> now,
     type |-> IF log.type = "" THEN "Error" ELSE log.type,
     message |-> log.message,
     stack |-> IF log.stack = "" THEN "N/A" ELSE log.stack]

\* the text of an entry, without the time
Text(entry) == [type |-> entry.type, message |-> entry.message, stack |-> entry.stack]

Includes(logs, logEntry) == \E k \in 1..Len(logs) : logs[k] = logEntry

LogRuntimeErrorNoShift(s, log) ==
    /\ runtimeLogs' = IF Includes(runtimeLogs[s], LogEntry(log))
                      THEN runtimeLogs
                      ELSE [runtimeLogs EXCEPT ![s] = Append(@, LogEntry(log))]
    /\ ret' = NoRet
    /\ UNCHANGED <<servers, objs, calls, now, agent, build, llm, ws>>

\* logRuntimeError 142-152
LogRuntimeError(s, log) ==
    /\ LET logs == runtimeLogs[s]
           logEntry == LogEntry(log)
           pushed == Append(logs, logEntry)
       IN  runtimeLogs' =
              IF Includes(logs, logEntry)
              THEN runtimeLogs
              ELSE [runtimeLogs EXCEPT
                       ![s] = IF Len(pushed) > maxLogs THEN Tail(pushed) ELSE pushed]
    /\ ret' = NoRet
    /\ UNCHANGED <<servers, objs, calls, now, agent, build, llm, ws>>

\* clearRuntimeLogs 138-140
ClearRuntimeLogs(s) ==
    /\ runtimeLogs' = [runtimeLogs EXCEPT ![s] = <<>>]
    /\ ret' = NoRet
    /\ UNCHANGED <<servers, objs, calls, now, agent, build, llm, ws>>

\* one session whose page reports any of its errors at any of two instants
NextLogs ==
    \/ \E log \in Logs : LogRuntimeError(1, log)
    \/ ClearRuntimeLogs(1)
    \/ Tick(1)

SpecLogs == Init /\ [][NextLogs]_vars

\* the message after the last one buffered, or that one again
Successive(s) ==
    LET last == IF runtimeLogs[s] = <<>> THEN 0
                ELSE runtimeLogs[s][Len(runtimeLogs[s])].message
    IN  {m \in {last, last + 1} : 1 <= m /\ m <= maxLogs + 2}

\* two sessions whose pages report errors that are all distinct, one
\* after the other, past the size of the buffer
NextBuffer ==
    \/ \E s \in 1..2 : \E m \in Successive(s) :
          LogRuntimeError(s, [type |-> "", message |-> m, stack |-> ""])
    \/ \E s \in 1..2 : ClearRuntimeLogs(s)

SpecBuffer == Init /\ [][NextBuffer]_vars

----------------------------------------------------------------------------
(* The build-output parser, part_009:69-126.  A line is known by the test  *)
(* it passes: "error" for isErrorStart, "blank" for isBlankLine, "section" *)
(* for isNewSection, "text" for none; a block is the sequence of the       *)
(* numbers of its lines.                                                   *)

minBlock == 3
maxBlock == 15

Classes == {"error", "blank", "section", "text"}

\* currentError.join('\n').trim(): the white space at both ends goes, and
\* with it the blank lines there
Trim(lines, currentError) ==
    LET inked == {k \in 1..Len(currentError) : lines[currentError[k]] # "blank"}
    IN  IF inked = {} THEN <<>>
        ELSE SubSeq(currentError,
                    CHOOSE k \in inked : \A j \in inked : k <= j,
                    CHOOSE k \in inked : \A j \in inked : k >= j)

AddLastDropsOpenBlock(lines, errors, currentError) == errors

\* 120-123: the block still open after the last line
AddLast(lines, errors, currentError) ==
    IF Len(currentError) > 0 THEN Append(errors, Trim(lines, currentError)) ELSE errors

RECURSIVE ScanNoCap(_, _, _, _, _)
ScanNoCap(lines, i, errors, currentError, inErrorBlock) ==
    IF i > Len(lines) THEN AddLast(lines, errors, currentError)
    ELSE IF lines[i] = "error"
    THEN ScanNoCap(lines, i + 1,
                   IF Len(currentError) > 0
                   THEN Append(errors, Trim(lines, currentError)) ELSE errors,
                   <<i>>, TRUE)
    ELSE IF inErrorBlock
    THEN LET ended == lines[i] = "blank" /\ Len(currentError) > minBlock
             block == IF ended THEN <<>>
                      ELSE IF lines[i] # "section" THEN Append(currentError, i)
                      ELSE currentError
             found == IF ended THEN Append(errors, Trim(lines, currentError)) ELSE errors
         IN  ScanNoCap(lines, i + 1, found, block, ~ended)
    ELSE ScanNoCap(lines, i + 1, errors, currentError, inErrorBlock)

RECURSIVE Scan(_, _, _, _, _)
\* the loop 76-118 from line i on
Scan(lines, i, errors, currentError, inErrorBlock) ==
    IF i > Len(lines) THEN AddLast(lines, errors, currentError)
    ELSE IF lines[i] = "error"
    THEN Scan(lines, i + 1,
              IF Len(currentError) > 0
              THEN Append(errors, Trim(lines, currentError)) ELSE errors,
              <<i>>, TRUE)
    ELSE IF inErrorBlock
    THEN LET ended == lines[i] = "blank" /\ Len(currentError) > minBlock
             block == IF ended THEN <<>>
                      ELSE IF lines[i] # "section" THEN Append(currentError, i)
                      ELSE currentError
             found == IF ended THEN Append(errors, Trim(lines, currentError)) ELSE errors
         IN  IF Len(block) > maxBlock
             THEN Scan(lines, i + 1, Append(found, Trim(lines, block)), <<>>, FALSE)
             ELSE Scan(lines, i + 1, found, block, ~ended)
    ELSE Scan(lines, i + 1, errors, currentError, inErrorBlock)

parseBuildErrors(lines) == Scan(lines, 1, <<>>, <<>>, FALSE)

\* output.split('\n') of any output of up to MaxLines lines
ShortOutputs == UNION {[1..n -> Classes] : n \in 1..MaxLines}

\* an error message longer than a block may be, and two more lines
LongOutputs ==
    {[k \in 1..(maxBlock + 1) |-> IF k = 1 THEN "error" ELSE "text"] \o t :
        t \in {s \in ShortOutputs : Len(s) <= 2}}

\* the entry made of error.message, which is no block of the output
MessageEntry == <<0>>

BuildProjectTrustsExit(rejected) ==
    /\ ~build.parsed
    /\ LET errors == parseBuildErrors(build.output)
       IN  build' = [build EXCEPT !.parsed = TRUE, !.errors = errors,
                                  !.rejected = rejected,
                                  !.result = [success |-> ~rejected, errors |-> errors]]
    /\ ret' = NoRet
    /\ UNCHANGED <<servers, objs, calls, now, agent, runtimeLogs, llm, ws>>

\* buildProject 22-64: the command resolves, or rejects (exit code, time
\* limit) with what it printed; build.errors is what the parser found and
\* build.result the BuildResult returned
BuildProject(rejected) ==
    /\ ~build.parsed
    /\ LET errors == parseBuildErrors(build.output)
       IN  build' = [build EXCEPT
                        !.parsed = TRUE, !.errors = errors, !.rejected = rejected,
                        !.result =
                           IF rejected
                           THEN [success |-> FALSE,
                                 errors |-> IF Len(errors) > 0 THEN errors
                                            ELSE <<MessageEntry>>]
                           ELSE IF Len(errors) > 0
                           THEN [success |-> FALSE, errors |-> errors]
                           ELSE [success |-> TRUE, errors |-> <<>>]]
    /\ ret' = NoRet
    /\ UNCHANGED <<servers, objs, calls, now, agent, runtimeLogs, llm, ws>>

InitParser ==
    /\ servers = <<>>
    /\ objs = <<>>
    /\ calls = EmptyBag
    /\ now = 0
    /\ ret = NoRet
    /\ project = TRUE
    /\ AgentIdle
    /\ runtimeLogs = [s \in Sessions |-> <<>>]
    /\ build \in [output : ShortOutputs \cup LongOutputs, parsed : {FALSE},
                   errors : {<<>>}, rejected : {FALSE}, result : {NoResult}]
    /\ llm = [c \in 1..MaxCalls |-> NoCall]
    /\ ws = NoWorkspace

NextParser == \E rejected \in BOOLEAN : BuildProject(rejected)

SpecParser == InitParser /\ [][NextParser]_vars

----------------------------------------------------------------------------
(* The rate-limit retry of LlmService.generateOpenAICompletion,            *)
(* part_002:193-222.  A call holds its local retries, the statuses the     *)
(* provider answered with (seen) and the delays it waited (waits).         *)

initialRetries == 3
backoffUnit == 2000

\* the statuses of a rejected chat.completions.create
Statuses == {429, 500}

\* 193-208
GenerateOpenAICompletion(c) ==
    /\ llm[c].pc = "idle"
    /\ llm' = [llm EXCEPT ![c] = [@ EXCEPT !.pc = "create", !.retries = initialRetries]]
    /\ ret' = NoRet
    /\ UNCHANGED <<servers, objs, calls, now, agent, runtimeLogs, build, ws>>

\* 210: create resolves and the call returns
CreateResolves(c) ==
    /\ llm[c].pc = "create"
    /\ llm' = [llm EXCEPT ![c] = [@ EXCEPT !.pc = "returned"]]
    /\ ret' = NoRet
    /\ UNCHANGED <<servers, objs, calls, now, agent, runtimeLogs, build, ws>>

\* 211-218: create rejects; the call waits to try again or throws the error
CreateRejects(c, status) ==
    /\ llm[c].pc = "create"
    /\ llm' = [llm EXCEPT ![c] =
                  IF status = 429 /\ llm[c].retries > 1
                  THEN [@ EXCEPT !.pc = "wait", !.seen = Append(@, status),
                                 !.waits = Append(@, (4 - llm[c].retries) * backoffUnit)]
                  ELSE [@ EXCEPT !.pc = "thrown", !.seen = Append(@, status)]]
    /\ ret' = NoRet
    /\ UNCHANGED <<servers, objs, calls, now, agent, runtimeLogs, build, ws>>

\* 214-215: the timer fires
BackoffElapsed(c) ==
    /\ llm[c].pc = "wait"
    /\ llm' = [llm EXCEPT ![c] = [@ EXCEPT !.pc = "create", !.retries = @ - 1]]
    /\ ret' = NoRet
    /\ UNCHANGED <<servers, objs, calls, now, agent, runtimeLogs, build, ws>>

NextLlm ==
    \/ \E c \in 1..MaxCalls : GenerateOpenAICompletion(c)
    \/ \E c \in 1..MaxCalls : CreateResolves(c)
    \/ \E c \in 1..MaxCalls : \E status \in Statuses : CreateRejects(c, status)
    \/ \E c \in 1..MaxCalls : BackoffElapsed(c)

SpecLlm == Init /\ [][NextLlm]_vars

----------------------------------------------------------------------------
(* The file operations of WorkspaceService, part_007:442-493.  ws.files is *)
(* the set of the files under the projects directory; a directory exists   *)
(* when a file is beneath it.                                              *)

(* Bounds of the model *)
MaxOps == 2          \* file operations in one behaviour
MaxDepth == 3        \* segments of a filePath

DotDot == <<".", ".">>

\* the filePath arguments: '..', the two session ids and a file name
FilePaths ==
    UNION {[1..n -> {DotDot, <<"f">>} \cup SessionIds] : n \in 0..MaxDepth}

RECURSIVE Str(_)
\* the path as a string: every segment after a separator
Str(p) == IF p = <<>> THEN <<>> ELSE <<"/">> \o Head(p) \o Str(Tail(p))

RECURSIVE Resolve(_, _)
\* path.normalize of an absolute path: '..' takes the last segment away
Resolve(segs, acc) ==
    IF segs = <<>> THEN acc
    ELSE IF Head(segs) = DotDot
    THEN Resolve(Tail(segs), IF acc = <<>> THEN <<>> ELSE SubSeq(acc, 1, Len(acc) - 1))
    ELSE Resolve(Tail(segs), Append(acc, Head(segs)))

\* String.prototype.startsWith
StartsWith(str, prefix) ==
    Len(prefix) <= Len(str) /\ SubSeq(str, 1, Len(prefix)) = prefix

\* getProjectPath 481-483
getProjectPath(sessionId) == projectsDir \o <<sessionId>>

\* getSecurePath 485-488: the normalized join
FullPath(sessionId, filePath) == Resolve(getProjectPath(sessionId) \o filePath, <<>>)

\* getSecurePath 490-492: the test it throws on
Secure(sessionId, filePath) ==
    StartsWith(Str(FullPath(sessionId, filePath)), Str(getProjectPath(sessionId)))

\* the path is dir or is beneath it
Within(p, dir) == StartsWith(p, dir)

\* fs.pathExists
PathExists(p) == \E f \in ws.files : Within(f, p)

\* the operation ends: what it was, how it ended and the path it was given
Done(name, sessionId, filePath, outcome, files) ==
    [files |-> files, ops |-> ws.ops + 1,
     op |-> [name |-> name, sessionId |-> sessionId, filePath |-> filePath,
             outcome |-> outcome,
             fullPath |-> IF outcome = "traversal" THEN <<>>
                          ELSE FullPath(sessionId, filePath)]]

\* readFile 442-448
ReadFile(sessionId, filePath) ==
    /\ ws.ops < MaxOps
    /\ LET fullPath == FullPath(sessionId, filePath) IN
       ws' = Done("readFile", sessionId, filePath,
            IF ~Secure(sessionId, filePath) THEN "traversal"
            ELSE IF ~PathExists(fullPath) THEN "File not found"
            ELSE IF fullPath \in ws.files THEN "read" ELSE "EISDIR",
            ws.files)
    /\ ret' = NoRet
    /\ UNCHANGED <<servers, objs, calls, now, agent, runtimeLogs, build, llm>>

\* writeFile 450-455
WriteFile(sessionId, filePath) ==
    /\ ws.ops < MaxOps
    /\ LET fullPath == FullPath(sessionId, filePath)
           blocked == \E f \in ws.files : f # fullPath /\ (Within(f, fullPath) \/ Within(fullPath, f))
       IN  ws' = Done("writeFile", sessionId, filePath,
                IF ~Secure(sessionId, filePath) THEN "traversal"
                ELSE IF blocked THEN "EISDIR" ELSE "written",
                IF Secure(sessionId, filePath) /\ ~blocked
                THEN ws.files \cup {fullPath} ELSE ws.files)
    /\ ret' = NoRet
    /\ UNCHANGED <<servers, objs, calls, now, agent, runtimeLogs, build, llm>>

\* editFile 458-470
EditFile(sessionId, filePath, found) ==
    /\ ws.ops < MaxOps
    /\ LET fullPath == FullPath(sessionId, filePath) IN
       ws' = Done("editFile", sessionId, filePath,
            IF ~Secure(sessionId, filePath) THEN "traversal"
            ELSE IF ~PathExists(fullPath) THEN "File not found"
            ELSE IF fullPath \notin ws.files THEN "EISDIR"
            ELSE IF found THEN "written" ELSE "Search string not found",
            ws.files)
    /\ ret' = NoRet
    /\ UNCHANGED <<servers, objs, calls, now, agent, runtimeLogs, build, llm>>

\* deleteFile 472-479: fs.remove takes a directory with all that is in it
DeleteFile(sessionId, filePath) ==
    /\ ws.ops < MaxOps
    /\ LET fullPath == FullPath(sessionId, filePath) IN
       ws' = Done("deleteFile", sessionId, filePath,
            IF ~Secure(sessionId, filePath) THEN "traversal"
            ELSE IF ~PathExists(fullPath) THEN "File not found" ELSE "deleted",
            IF Secure(sessionId, filePath)
            THEN {f \in ws.files : ~Within(f, fullPath)} ELSE ws.files)
    /\ ret' = NoRet
    /\ UNCHANGED <<servers, objs, calls, now, agent, runtimeLogs, build, llm>>

NextWorkspace ==
    \/ \E s \in SessionIds : \E p \in FilePaths : ReadFile(s, p)
    \/ \E s \in SessionIds : \E p \in FilePaths : WriteFile(s, p)
    \/ \E s \in SessionIds : \E p \in FilePaths : \E found \in BOOLEAN : EditFile(s, p, found)
    \/ \E s \in SessionIds : \E p \in FilePaths : DeleteFile(s, p)

SpecWorkspace == Init /\ [][NextWorkspace]_vars

---------------------------------------------------------------------------
(* Properties of the process pool *)

InPool == {servers[k] : k \in 1..Len(servers)}

AliveOf(s) == {i \in 1..Len(objs) : objs[i].sessionId = s /\ objs[i].proc = "alive"}

\* C1: for every session at most one record is in the pool and at most one
\* process spawned for the session is alive, also when start calls for the
\* session overlap.
C1_OnePreviewPerSession ==
    \A s \in Sessions :
        /\ Cardinality({k \in 1..Len(servers) : objs[servers[k]].sessionId = s}) <= 1
        /\ Cardinality(AliveOf(s)) <= 1

\* C2: the port a start call has just been given by the allocation is held
\* by no record of another session in the pool.
C2_AllocatedPortIsFree ==
    (ret.op = "start" /\ ret.status = "installing") =>
        \A i \in InPool : objs[i].sessionId # ret.sessionId => objs[i].port # ret.port

\* C3: the records that are running, starting or installing never number
\* more than maxServers.
C3_AtMostMaxServersActive == runningCount <= maxServers

\* C4: a start call that finds the pool at capacity, for a session with no
\* active record, removes from the pool the running record of least
\* lastActivity and no other record, and has not yet created the record of
\* its own session; with no running record it removes nothing.
C4_EvictsOldestRunning ==
    [][\A s \in Sessions :
          (/\ runningCount >= maxServers
           /\ Get(s) = 0 \/ ~Active(objs[Get(s)])
           /\ StartDevServer(s, Pool))
          => LET R == {i \in InPool : objs[i].status = "running"} IN
             IF R = {} THEN InPool' = InPool
             ELSE \E v \in R :
                     /\ \A j \in R : objs[v].lastActivity <= objs[j].lastActivity
                     /\ InPool' = InPool \ {v}]_vars

\* a start call stands suspended after it evicted the older of two running
\* records, which was not the first of the Map
C4_Witness ==
    /\ \E c \in BagToSet(calls) : c.pc = "evicted"
    /\ 1 \in InPool /\ objs[1].status = "running"
    /\ 2 \notin InPool /\ objs[2].killed
    /\ objs[2].lastActivity < objs[1].lastActivity

\* C5: a start call for a session whose record is running, installing or
\* starting returns the record's status and changes nothing but the
\* lastActivity of a running record: no record, port, call or process more.
C5_StartOnActiveIsNoOp ==
    [][\A s \in Sessions :
          (/\ Get(s) # 0
           /\ Active(objs[Get(s)])
           /\ StartDevServer(s, Pool))
          => /\ servers' = servers
             /\ calls' = calls
             /\ ret'.op = "start" /\ ret'.status = objs[Get(s)].status
             /\ Len(objs') = Len(objs)
             /\ \A i \in 1..Len(objs) :
                   \/ objs'[i] = objs[i]
                   \/ /\ i = Get(s)
                      /\ objs[i].status = "running"
                      /\ objs'[i] = [objs[i] EXCEPT !.lastActivity = now]]_vars

\* a start call has just returned running for a record created before the
\* idle threshold passed, and refreshed it
C5_Witness ==
    /\ ret.op = "start" /\ ret.status = "running"
    /\ Get(ret.sessionId) # 0
    /\ objs[Get(ret.sessionId)].lastActivity = now
    /\ now > idleTimeout

\* C6: a start call that is given a port returns installing with the lowest
\* port of the window [basePort, basePort + 99] that no record of the pool
\* held when the probe began and that the bind test did not refuse, and the
\* pool then holds a record of the session, installing, with that port.
C6_StartAllocatesLowestFreePort ==
    [][\A c \in BagToSet(calls) :
          (IsPortAvailable(c, Race) /\ ret'.op = "start" /\ ret'.status # "throw")
          => /\ ret'.status = "installing"
             /\ ret'.sessionId = c.sessionId
             /\ ret'.port \in basePort .. (basePort + 99)
             /\ ret'.port \notin c.used \cup c.refused
             /\ \A q \in basePort .. (ret'.port - 1) : q \in c.used \cup c.refused
             /\ \E i \in InPool' :
                   /\ objs'[i].sessionId = c.sessionId
                   /\ objs'[i].status = "installing"
                   /\ objs'[i].port = ret'.port]_vars

\* a start call has just returned the third port of the window: the first
\* was refused by the bind test and the second is held by a record
C6_Witness ==
    /\ ret.op = "start" /\ ret.status = "installing"
    /\ ret.port = basePort + 2
    /\ \E i \in InPool : objs[i].sessionId # ret.sessionId /\ objs[i].port = basePort + 1
    /\ \A i \in InPool : objs[i].port # basePort

\* C7: once stop has returned for a session, and with no start for it since,
\* no process of the session runs on: a process that is alive then has been
\* sent the termination signal by the stop.
C7_StopLeavesNoProcess ==
    \A i \in 1..Len(objs) :
        (/\ objs[i].proc = "alive"
         /\ Get(objs[i].sessionId) = 0
         /\ \A c \in BagToSet(calls) : c.sessionId # objs[i].sessionId)
        => objs[i].killed

\* C8: when the grace period of a stop has elapsed and the process has not
\* exited, the forceful kill signal has been sent to it.
C8_ForceKillAfterGrace ==
    \A i \in 1..Len(objs) :
        (objs[i].grace = "fired" /\ objs[i].proc = "alive") => objs[i].sigkill

\* C9: a record of the pool whose process has exited, its status not error,
\* is idle with its handle cleared, so that a start for its session does not
\* return early but begins a new lifecycle.
C9_ExitedRecordIsIdle ==
    \A i \in InPool :
        (objs[i].proc = "exited" /\ objs[i].status # "error")
        => /\ objs[i].status = "idle"
           /\ ~HasHandle(objs[i])

\* C10: when the 30 s timer fires with no readiness line seen and the record
\* not in error, the record is marked running and the pipeline ends without
\* entering its catch block.
C10_TimeoutMarksRunning ==
    [][\A i \in 1..Len(objs) :
          (ReadyTimeout(i) /\ objs[i].status # "error")
          => /\ objs'[i].status = "running"
             /\ objs'[i].pc = "done"
             /\ objs'[i].errorMessage = objs[i].errorMessage]_vars

\* the pipeline of a record of the pool has ended on the timer: the process
\* is alive, printed no readiness line, and the record is running
C10_Witness ==
    \E i \in InPool :
        /\ objs[i].pc = "done" /\ ~objs[i].isReady
        /\ objs[i].proc = "alive"
        /\ objs[i].status = "running" /\ objs[i].errorMessage = ""

\* C11: a run of the idle sweep takes out of the pool exactly the records
\* that are running and whose last activity is more than 30 minutes before
\* the sweep; every other record stays in the pool, in its place and with
\* all its fields as they were.
C11_SweepRemovesExactlyIdleRunning ==
    [][CleanupIdleServers =>
          LET Gone == {i \in InPool : /\ objs[i].status = "running"
                                      /\ now > objs[i].lastActivity + 30 * 60 * 1000} IN
          /\ InPool' = InPool \ Gone
          /\ servers' = SelectSeq(servers, LAMBDA i : i \notin Gone)
          /\ \A i \in InPool' : objs'[i] = objs[i]]_vars

\* a sweep has run at the first instant a record can be idle: the records
\* last active at 0 are gone and signalled, the one refreshed since and the
\* installing ones are still in the pool (no start has evicted: no object
\* was created and no call is suspended)
C11_Witness ==
    /\ now = idleTimeout + MaxSkew
    /\ Len(objs) = maxServers
    /\ calls = EmptyBag
    /\ \E i \in 1..Len(objs) : ~InMap(i) /\ objs[i].killed /\ objs[i].lastActivity = 0
    /\ \E i \in InPool : objs[i].status = "running" /\ objs[i].lastActivity = MaxSkew
    /\ \E i \in InPool : objs[i].status = "installing"

---------------------------------------------------------------------------
(* Properties of the agent workflow *)

RunsAt(pcs) == {r \in BagToSet(runs) : r.pc \in pcs}

\* C12: at most one plan of the session is pending, the pending plan is the
\* most recently created one, and outside a creation under way the most
\* recently created plan has not been superseded; also when creations
\* overlap.
C12_OnePendingPlanIsNewest ==
    /\ Cardinality(Pending) <= 1
    /\ \A k \in Pending : k = Len(plans) /\ GetPendingPlan = k
    /\ (plans # <<>> /\ RunsAt({"insert"}) = {})
          => plans[Len(plans)].status # "superseded"

\* two creations overlapped: the insert of one was refused, its plan is in
\* no row, and the plan of the other is the pending one
C12_Witness ==
    /\ \E r \in RunsAt({"setPlanPhase"}) :
          \A k \in 1..Len(plans) : plans[k].request # r.prompt
    /\ Len(plans) >= 2
    /\ GetPendingPlan = Len(plans)

\* C13: the phase goes from awaiting_approval to coding only in a run of
\* approveAndCode or approveAndCodeStream.
C13_CodingOnlyOnApproval ==
    [][\A r \in BagToSet(runs) :
          (phase = "awaiting_approval" /\ SetPhaseCoding(r) /\ phase' = "coding")
             => r.kind \in {"approve", "approveStream"}]_vars

\* C14: when approveAndCode returns, or approveAndCodeStream finishes,
\* without an error, the persisted phase is complete.
C14_ApprovedRunEndsComplete ==
    (out.kind \in {"approve", "approveStream"} /\ out.what = "return")
       => phase = "complete"

\* C15: a request of a planning entry point that arrives while the phase is
\* awaiting_approval is not started as a planning run.
C15_AwaitingApprovalRoutesToApproval ==
    [][\A kind \in Planning :
          (phase = "awaiting_approval" /\ Request(kind, Approval))
             => \A r \in BagToSet(runs') : r.pc = "planning" => r \in BagToSet(runs)]_vars

\* C16: when a fastMode or repair run of a session that has its project
\* row emits its complete event, the phase is complete.
C16_SideRunEndsComplete ==
    (project /\ out.kind \in {"fastMode", "repair"} /\ out.what = "complete")
       => phase = "complete"

\* C17: when the plan entry point returns phase awaiting_approval in a
\* session that has its project row, the persisted phase is
\* awaiting_approval and the pending plan is unapproved and has the
\* submitted prompt as its request.
C17_PlanReturnIsPersisted ==
    (project /\ out.kind = "plan" /\ out.what = "awaiting_approval")
       => /\ GetPhase = "awaiting_approval"
          /\ GetPlan # 0
          /\ plans[GetPlan].request = out.prompt

\* C18: approveAndCode and approveAndCodeStream on a session without a
\* pending plan end at their first step with the error 'No plan found':
\* nothing was emitted before, the phase and the plans are as they were,
\* and the run is over, so that it makes no generation call.
C18_ApproveWithoutPlanFails ==
    [][\A r \in BagToSet(runs) :
          (r.kind \in {"approve", "approveStream"} /\ GetPlan = 0 /\ CodingGetPlan(r))
             => /\ r = NewRun(r.kind, 0)
                /\ out' = [kind |-> r.kind, what |-> "No plan found", prompt |-> 0]
                /\ phase' = phase
                /\ plans' = plans
                /\ runs' = runs (-) SetToBag({r})]_vars

\* approveAndCodeStream has failed in a session whose plan was approved
\* before, by a run that is still coding
C18_Witness ==
    /\ out = [kind |-> "approveStream", what |-> "No plan found", prompt |-> 0]
    /\ \E k \in 1..Len(plans) : plans[k].status = "approved"
    /\ phase = "coding"

\* C19: no two runs of the session are in the step loop for the same plan.
C19_PlanExecutedOnce ==
    \A r \in RunsAt({"steps"}) :
        /\ CopiesIn(r, runs) = 1
        /\ \A q \in RunsAt({"steps"}) : q # r => q.plan # r.plan

\* C20: a turn of the step loop never ends the run and never throws, a
\* generation that raises is reported by a notification, and a run that
\* has left the loop has gone through every step of its plan, each one
\* either recorded or reported.
C20_FailedStepDoesNotAbort ==
    /\ [][\A r \in BagToSet(runs) :
            ExecuteStep(r)
               => /\ out'.what \in {"none", "Error in step"}
                  /\ \E q \in BagToSet(runs') :
                        /\ q.pc = "steps" /\ q.i = r.i + 1 /\ q.plan = r.plan
                        /\ q.recorded \cup q.failed = 1..(r.i + 1)
                        /\ (r.i + 1 \in q.failed) = (out'.what = "Error in step")]_vars
    /\ [](\A r \in RunsAt({"preview"}) :
            /\ r.i = r.steps
            /\ r.recorded \cup r.failed = 1..r.steps
            /\ r.recorded \cap r.failed = {})

\* a run is past the loop: its first step raised and its last was recorded
C20_Witness ==
    \E r \in RunsAt({"preview"}) :
        r.steps = MaxSteps /\ 1 \in r.failed /\ r.steps \in r.recorded

\* C21: in approveAndCodeStream the complete event is emitted only after
\* the preview start has been requested and has returned: no run that has
\* emitted it is still before the return of startDevServer.
C21_PreviewStartedBeforeComplete ==
    \A r \in BagToSet(runs) :
        (r.kind = "approveStream" /\ r.tail # <<>> /\ r.tail[1] = "complete")
           => r.pc # "preview"

\* C22: the complete event of an approveAndCodeStream run is its last
\* event: nothing is emitted after it.
C22_CompleteIsLastEvent ==
    \A r \in BagToSet(runs) :
        r.kind = "approveStream" => r.tail \in {<<>>, <<"complete">>}

\* C23: a fastMode or repair run ends on a complete event or on an error
\* event, never on an exception or on another event, and has emitted no
\* error event before the one it ends on.
C23_SideRunEndsOnTerminalEvent ==
    [][\A r \in BagToSet(runs) :
          (project /\ r.kind \in {"fastMode", "repair"} /\ runs' = runs (-) SetToBag({r}))
             => /\ out' \in {[kind |-> r.kind, what |-> w, prompt |-> r.prompt] :
                                 w \in {"complete", "error"}}
                /\ r.tail = <<>>]_vars

\* C24: a repair run calls autoFixErrors once when the build errors and the
\* runtime logs together are not empty and ends without calling it when
\* they are empty; whatever the fix and the rebuild give, it never calls it
\* a second time.
C24_RepairLoopOnce ==
    /\ [][\A r \in BagToSet(runs) : \A b \in BuildResults : \A l \in 0..MaxDiagnostics :
             (r.kind = "repair" /\ RepairBuild(r, b, l))
                => IF CombinedErrors(b, l) = 0
                   THEN r.fixes = 0 /\ runs' = runs (-) SetToBag({r})
                   ELSE \E q \in BagToSet(runs') :
                           q.kind = "repair" /\ q.pc = "fix" /\ q.fixes = 1]_vars
    /\ [](\A r \in BagToSet(runs) :
             r.kind = "repair" => r.fixes = IF r.pc = "build" THEN 0 ELSE 1)

\* a repair run whose rebuild after the fix has failed, about to start the
\* preview
C24_Witness ==
    /\ out = [kind |-> "repair", what |-> "error", prompt |-> 0]
    /\ BagCardinality(runs) = 1
    /\ \E r \in BagToSet(runs) :
          r.kind = "repair" /\ r.pc = "repairPreview" /\ r.fixes = 1
             /\ r.tail = <<"error", "status", "chunk", "status", "chunk", "error">>

\* C25: the background verification is started with the complete event and
\* is not waited for, by that event or by the return of the run; it calls
\* autoFixErrors once when the build errors and the runtime logs together
\* are not empty and not otherwise, and none of its steps gives anything
\* to the caller.
C25_BackgroundVerificationDetached ==
    /\ [][\A r \in BagToSet(runs) :
             (r.kind = "approveStream" /\ CodingComplete(r))
                => /\ out' = [kind |-> r.kind, what |-> "complete", prompt |-> r.prompt]
                   /\ CopiesIn(NewRun("background", 0), runs')
                         = CopiesIn(NewRun("background", 0), runs) + 1]_vars
    /\ [][\A r \in BagToSet(runs) : \A b \in BuildResults : \A l \in 0..MaxDiagnostics :
             BackgroundVerify(r, b, l)
                => /\ out' = NoOut
                   /\ IF CombinedErrors(b, l) > 0
                      THEN runs' = (runs (-) SetToBag({r}))
                                      (+) SetToBag({[r EXCEPT !.pc = "bgFix", !.fixes = 1]})
                      ELSE runs' = runs (-) SetToBag({r})]_vars
    /\ [][\A r \in BagToSet(runs) : \A success \in BOOLEAN :
             BackgroundFix(r, success)
                => out' = NoOut /\ runs' = runs (-) SetToBag({r})]_vars
    /\ [](\A r \in BagToSet(runs) :
             /\ r.kind = "background" => r.fixes = IF r.pc = "bgVerify" THEN 0 ELSE 1
             /\ (r.kind = "approveStream" /\ r.pc = "preview") => ENABLED CodingPreview(r))

\* approveAndCodeStream has returned and its background verification has
\* not yet looked at the build
C25_Witness ==
    /\ out = [kind |-> "approveStream", what |-> "return", prompt |-> 0]
    /\ arrived = 2
    /\ runs = SetToBag({NewRun("background", 0)})

\* C26: when autoFixErrors returns {success: false} the repair run emits
\* the event that says so and goes on to the preview start: the failure of
\* the repair attempt is not an exception of the run.
C26_FailedFixIsAnEvent ==
    [][\A r \in BagToSet(runs) :
          (r.kind = "repair" /\ RepairFix(r, FALSE))
             => /\ out' = [kind |-> "repair",
                           what |-> "Could not automatically fix errors", prompt |-> 0]
                /\ runs' = (runs (-) SetToBag({r}))
                              (+) SetToBag({[r EXCEPT !.pc = "repairPreview",
                                                      !.tail = @ \o <<"chunk">>]})]_vars

\* a repair run after its failed fix
C26_Witness ==
    /\ out = [kind |-> "repair", what |-> "Could not automatically fix errors",
              prompt |-> 0]
    /\ \E r \in BagToSet(runs) :
          r.kind = "repair" /\ r.pc = "repairPreview" /\ r.fixes = 1
             /\ r.tail = <<"error", "status", "chunk">>

----------------------------------------------------------------------------
(* Properties of the services *)

\* C27: the buffer of a session never holds two entries of the same text
\* (type, message and stack), whenever the two were ingested.
C27_SameTextBufferedOnce ==
    \A s \in Sessions : \A i, j \in 1..Len(runtimeLogs[s]) :
        i # j => Text(runtimeLogs[s][i]) # Text(runtimeLogs[s][j])

\* C28: the buffer of a session never holds more than 50 entries, and an
\* entry that is new to a buffer of 50 takes the last place while the first
\* entry goes and the others keep their order.
C28_BufferKeepsNewestFifty ==
    /\ [](\A s \in Sessions : Len(runtimeLogs[s]) <= 50)
    /\ [][\A s \in 1..2 : \A m \in Successive(s) :
             LET log == [type |-> "", message |-> m, stack |-> ""]
             IN  (/\ Len(runtimeLogs[s]) = 50
                  /\ ~Includes(runtimeLogs[s], LogEntry(log))
                  /\ LogRuntimeError(s, log))
                    => runtimeLogs'[s] = Tail(runtimeLogs[s]) \o <<LogEntry(log)>>]_vars

\* after 51 distinct errors the buffer holds the entries 2..51
C28_Witness ==
    /\ Len(runtimeLogs[1]) = 50
    /\ \A k \in 1..50 : runtimeLogs[1][k].message = k + 1

\* C29: the parser gives one block per error-start line of the output, in
\* the order of the lines, each block beginning with its error-start line;
\* the block open at the end of the output is among them.
C29_OneBlockPerErrorStart ==
    build.parsed =>
       LET starts == {i \in 1..Len(build.output) : build.output[i] = "error"}
           errors == build.errors
       IN  /\ Len(errors) = Cardinality(starts)
           /\ \A k \in 1..Len(errors) :
                 /\ errors[k] # <<>>
                 /\ errors[k][1] \in starts
                 /\ k < Len(errors) => errors[k][1] < errors[k + 1][1]

\* three error messages separated by blank lines, the last one open at the
\* end of the output
C29_Witness ==
    /\ build.parsed
    /\ build.output = <<"error", "text", "blank", "error", "blank", "error">>
    /\ build.errors = << <<1, 2>>, <<4>>, <<6>> >>

\* C30: a call that throws has tried again after rate-limit responses
\* only, each time after a delay that is the first delay times the number
\* of the retry, and when what it throws is a rate-limit response it has
\* retried 3 times.
C30_RateLimitRetriedThreeTimes ==
    \A c \in 1..MaxCalls :
        llm[c].pc = "thrown" =>
           LET seen == llm[c].seen
               waits == llm[c].waits
           IN  /\ Len(waits) = Len(seen) - 1
               /\ \A k \in 1..Len(waits) : seen[k] = 429 /\ waits[k] = k * waits[1]
               /\ seen[Len(seen)] = 429 => Len(waits) = 3

----------------------------------------------------------------------------
(* Further properties of the process pool *)

\* C32: while a record is in the pool its status never goes back along
\* installing, starting, running or error, and a record that is running or
\* in error keeps that status.
C32_StatusMovesForward ==
    [][\A i \in InPool \cap InPool' :
          LET Rank(st) == CASE st = "installing" -> 1
                            [] st = "starting" -> 2
                            [] st \in {"running", "error"} -> 3
                            [] OTHER -> 0
          IN  /\ Rank(objs'[i].status) >= Rank(objs[i].status)
              /\ objs[i].status \in {"running", "error"}
                    => objs'[i].status = objs[i].status]_vars

\* C37: a record of the pool that is running holds the handle of a process
\* that has not exited.
C37_RunningRecordHasLiveProcess ==
    \A i \in InPool :
        objs[i].status = "running" => HasHandle(objs[i]) /\ objs[i].proc = "alive"

\* C38: no two records of the pool hold the same port.
C38_PortsAreDistinct ==
    \A i, j \in InPool : i # j => objs[i].port # objs[j].port

----------------------------------------------------------------------------
(* Further properties of the build validator *)

\* the error-start line that follows line i, or the line after the last
NextStart(i) ==
    LET later == {j \in (i + 1)..Len(build.output) : build.output[j] = "error"}
    IN  IF later = {} THEN Len(build.output) + 1
        ELSE CHOOSE j \in later : \A k \in later : j <= k

\* C34: a section heading inside an open block ends the block: no block
\* holds a line that comes after a heading met while the block was open.
C34_SectionHeadingEndsBlock ==
    build.parsed =>
       \A k \in 1..Len(build.errors) : \A n \in 1..Len(build.errors[k]) :
          \A j \in build.errors[k][1]..build.errors[k][n] :
             build.output[j] # "section"

\* C35: no block has more than 16 lines, and after a block that was ended
\* at 16 lines no line is in any block until the next error-start line.
C35_BlockCappedAtSixteenLines ==
    build.parsed =>
       \A k \in 1..Len(build.errors) :
          LET block == build.errors[k] IN
          /\ Len(block) <= 16
          /\ Len(block) = 16 =>
                \A j \in (block[16] + 1)..(NextStart(block[1]) - 1) :
                   \A q \in 1..Len(build.errors) : \A n \in 1..Len(build.errors[q]) :
                      build.errors[q][n] # j

\* an error message of 18 lines was parsed into one block of its first 16
C35_Witness ==
    /\ build.parsed
    /\ Len(build.output) = 18
    /\ build.output[17] = "text" /\ build.output[18] = "text"
    /\ build.errors = << [k \in 1..16 |-> k] >>

\* C36: a BuildResult has success true exactly when its errors are none; a
\* command that failed gives success false with the parsed blocks, or with
\* its failure message when there is none; a command that ended normally
\* with an error-start line in its output gives success false.
C36_SuccessIffNoErrors ==
    build.parsed =>
       /\ build.result.success <=> build.result.errors = <<>>
       /\ build.rejected =>
             /\ ~build.result.success
             /\ build.result.errors =
                   IF build.errors # <<>> THEN build.errors ELSE <<MessageEntry>>
       /\ (~build.rejected /\ \E j \in 1..Len(build.output) : build.output[j] = "error")
             => ~build.result.success

\* the command failed and printed nothing the parser takes for an error
C36_Witness ==
    /\ build.parsed /\ build.rejected
    /\ build.output = <<"text", "blank">>
    /\ build.result = [success |-> FALSE, errors |-> <<MessageEntry>>]

----------------------------------------------------------------------------
(* Properties of the workspace *)

\* C31: a file operation that has read, written or deleted did so at a
\* path in the directory of its session, and no file outside that
\* directory was created or removed by it.
C31_FileOperationsStayInSession ==
    /\ [](ws.op.outcome \in {"read", "written", "deleted"}
             => LET dir == getProjectPath(ws.op.sessionId)
                IN  /\ Len(ws.op.fullPath) >= Len(dir)
                    /\ SubSeq(ws.op.fullPath, 1, Len(dir)) = dir)
    /\ [][\A s \in SessionIds :
             ws'.op.sessionId = s
                => \A f \in (ws.files \cup ws'.files) \ (ws.files \cap ws'.files) :
                      Len(f) > Len(getProjectPath(s))
                         /\ SubSeq(f, 1, Len(getProjectPath(s))) = getProjectPath(s)]_vars

----------------------------------------------------------------------------
(* A further property of the agent workflow *)

\* C33: the generation call of a step is given the instructions of the
\* steps up to it, in plan order, each earlier one followed by the output
\* of its step when that step succeeded; a turn of the loop ends the call
\* of step i before the call of step i + 1 is made, with the history of
\* step i as the beginning of its own.
C33_StepsSeeEarlierOutputsInOrder ==
    /\ [](\A r \in RunsAt({"steps"}) :
             r.history =
                SelectSeq([n \in 1..(2 * r.i + (IF r.i < r.steps THEN 1 ELSE 0)) |->
                              IF n % 2 = 1 THEN Instruction((n + 1) \div 2)
                              ELSE Response(n \div 2)],
                          LAMBDA m : m.role = "user" \/ m.step \in r.recorded))
    /\ [][\A r \in BagToSet(runs) :
             ExecuteStep(r)
                => \E q \in BagToSet(runs') :
                      /\ q.i = r.i + 1
                      /\ Len(q.history) >= Len(r.history)
                      /\ SubSeq(q.history, 1, Len(r.history)) = r.history]_vars

\* the call of the second step is under way with the output of the first
C33_Witness ==
    \E r \in RunsAt({"steps"}) :
        /\ r.kind = "approveStream"
        /\ r.i = 1 /\ r.steps = 2 /\ r.recorded = {1}
        /\ r.history = <<Instruction(1), Response(1), Instruction(2)>>

====
